---- MODULE Spec2Model ----
(***************************************************************************)
(* A model of src/app.js: the TypingAnimation state machine and the two    *)
(* IntersectionObserver-driven reveal components (ScrollAnimator and       *)
(* SkillBarsAnimator), composed as initApp composes them.                  *)
(***************************************************************************)
EXTENDS Integers, Sequences, FiniteSets, TLC

(***************************************************************************)
(* Bounds of the model.                                                    *)
(***************************************************************************)
MaxLen == 2        \* longest phrase, in characters
MaxPhrases == 2    \* longest phrase sequence
MaxTrace == 13     \* renders recorded in the history variable trace
MaxRounds == 2     \* the cycle counter wraps after MaxRounds * N cycles
MaxWrites == 2     \* the counter of style writes saturates here
MaxPending == 2    \* contact form: timeouts pending at once
MaxCards == 2      \* longest list given to the card renderers, the real lists aside
MaxScroll == 44    \* scroll positions, in steps of ScrollGrain pixels
MaxInstances == 2  \* particle instances in window.pJSDom at once

(***************************************************************************)
(* Program constants.                                                      *)
(***************************************************************************)
typingSpeed == 80
deletingSpeed == 50
PauseMs == 2000
scrollThreshold == 10   \* threshold: 0.1, in percent of the target's area
skillThreshold == 50    \* threshold: 0.5, in percent of the target's area

(***************************************************************************)
(* Inputs.  A phrase is a sequence of characters; the phrases are the      *)
(* prefixes of "abcd" up to MaxLen characters, the empty phrase included.  *)
(* A phrase sequence has 1..MaxPhrases phrases of consecutive lengths      *)
(* (wrapping to the empty phrase), starting at any length.                 *)
(***************************************************************************)
Alphabet == <<"a", "b", "c", "d">>
Phrase(k) == SubSeq(Alphabet, 1, k % (MaxLen + 1))
PhraseSeqs ==
  { [j \in 1..n |-> Phrase(k + j - 1)] : n \in 1..MaxPhrases, k \in 0..MaxLen }
AB == <<"a", "b">>

\* visible fractions of a target the environment may produce, in percent
Fractions == {0, 10, 50}

(***************************************************************************)
(* The rendered page.  portfolioData.skills, cut to its first entry;       *)
(* renderSkills maps every entry to one skill card.                        *)
(***************************************************************************)
skills == << [name |-> "HTML", proficiency |-> 95, icon |-> "fab fa-html5"] >>

Percent(p) == [num |-> p, unit |-> "%"]
Unset == [num |-> -1, unit |-> ""]

\* a card template that closes over the first entry of the list
skillCardOfFirst(skill) ==
  [classes |-> {"skill-card", "fade-in"},
   icon |-> skills[1].icon,
   name |-> skills[1].name,
   dataWidth |-> Percent(skills[1].proficiency),
   percentage |-> Percent(skills[1].proficiency)]

\* the template literal of one skill card
skillCard(skill) ==
  [classes |-> {"skill-card", "fade-in"},
   icon |-> skill.icon,
   name |-> skill.name,
   dataWidth |-> Percent(skill.proficiency),
   percentage |-> Percent(skill.proficiency)]

renderSkills == [i \in 1..Len(skills) |-> skillCard(skills[i])]

\* element 0 is the hero-content block, element i >= 1 the i-th skill card
HeroContent == 0
SkillCards == 1..Len(renderSkills)
Elements == {HeroContent} \cup SkillCards

renderedClasses(e) ==
  IF e = HeroContent THEN {"hero-content", "fade-in"} ELSE renderSkills[e].classes

querySelectorAll(cls) == { e \in Elements : cls \in renderedClasses(e) }

VARIABLES
  texts, textIndex, charIndex, isDeleting,  \* TypingAnimation fields
  innerHTML,     \* text written to #typing-text, before the cursor span
  timers,        \* pending setTimeout callbacks of the typing animation
  pc,            \* "constructed" before typing.start(), then "running"
  classList,     \* element -> set of class names
  skillWidth,    \* skill card -> value of --skill-width on its .skill-progress
  frac,          \* element -> visible fraction now, in percent
  prevIndex,     \* observer -> element -> previousThresholdIndex (-1: none)
  trace,         \* history: the first MaxTrace renders, as (mode, cursor)
  cycles,        \* history: completed type/delete cycles, wrapping
  styleWrites,   \* history: setProperty calls per skill card, saturating
  peak,          \* history: element -> largest visible fraction so far
  revealedBy,    \* history: element -> the observer that revealed it first
  fieldValue,    \* contact form: field -> value of the input
  groupError,    \* contact form: field -> its .form-group has class 'error'
  errorText,     \* contact form: field -> text of its .form-error span
  status,        \* #form-status: class, text and display
  submitBtn,     \* .btn-submit: disabled flag and label
  pending,       \* contact form: pending timeouts, in order of registration
  data,          \* portfolioData: the skill and featured-project lists
  view,          \* the cards in #root, <<>> before the view is rendered
  scrollY,       \* window.scrollY, in pixels
  activeLinks,   \* the hrefs of the .nav-menu links that carry class 'active'
  menuOpen,      \* .nav-menu carries class 'active' (mobile menu open)
  theme,         \* themeManager.theme
  dataTheme,     \* data-theme attribute of the document element
  windowTheme,   \* window.currentTheme
  icon,          \* class of the <i> in the theme toggle
  returned,      \* history: what the last toggle() returned, "none" before
  themeLog,      \* history: the theme before each of the last two toggles
  particlesJS,   \* window.particlesJS: "absent" or "loaded"
  current,       \* index into presets kept by the style toggle's listener
  pJSDom,        \* window.pJSDom: the configurations of the live instances
  toggleText,    \* textContent of #particles-toggle
  labelTimers,   \* pending timeouts that reset the label of the style toggle
  wired,         \* initApp has reached its end: both toggles have listeners
  raised,        \* history: an error has escaped initApp or a listener
  calledAbsent   \* history: particlesJS was called while absent

typingVars == <<texts, textIndex, charIndex, isDeleting, innerHTML, timers, pc,
                trace, cycles>>
revealVars == <<classList, skillWidth, frac, prevIndex, styleWrites, peak,
               revealedBy>>
formVars == <<fieldValue, groupError, errorText, status, submitBtn, pending>>
renderVars == <<data, view>>
navVars == <<scrollY, activeLinks, menuOpen>>
themeVars == <<theme, dataTheme, windowTheme, icon, returned, themeLog>>
particleVars == <<particlesJS, current, pJSDom, toggleText, labelTimers, wired,
                  raised, calledAbsent>>
pageVars == <<renderVars, navVars, themeVars, particleVars>>
otherVars == <<formVars, pageVars>>
vars == <<typingVars, revealVars, otherVars>>

(***************************************************************************)
(* String.prototype.substring(start, end): both arguments are clamped to   *)
(* [0, length] and swapped when start > end.                               *)
(***************************************************************************)
Clamp(n, len) == IF n < 0 THEN 0 ELSE IF n > len THEN len ELSE n

substring(s, start, end) ==
  LET a == Clamp(start, Len(s))
      b == Clamp(end, Len(s))
  IN IF a <= b THEN SubSeq(s, a + 1, b) ELSE SubSeq(s, b + 1, a)

(***************************************************************************)
(* TypingAnimation.  `this' is the object together with the text of its    *)
(* element; type(this) is one run of type(): the new fields, the text it   *)
(* rendered and the timeouts it registered.                                *)
(***************************************************************************)
this == [texts |-> texts, textIndex |-> textIndex, charIndex |-> charIndex,
         isDeleting |-> isDeleting, html |-> innerHTML]

typeTimeout(ms) == [callback |-> "type", delay |-> ms]
pauseTimeout == [callback |-> "pause", delay |-> PauseMs]

\* variants of finishedTyping with the comparison off by one
finishedTypingLate(c, currentText) == c > Len(currentText) + 1

finishedTypingEarly(c, currentText) == c >= Len(currentText)

finishedTyping(c, currentText) == c > Len(currentText)

finishedDeleting(c) == c = 0

\* variant of nextTextIndex that forgets the increment
nextTextIndexStuck(i, n) == i % n

nextTextIndex(i, n) == (i + 1) % n

\* a speed that ignores the phase
speedOfTyping(deleting) == typingSpeed

speed(deleting) == IF deleting THEN deletingSpeed ELSE typingSpeed

\* variant of scheduleAfterTyping without the early return
scheduleAfterTypingNoReturn(finished) ==
  IF finished THEN <<pauseTimeout, typeTimeout(speed(FALSE))>>
  ELSE <<typeTimeout(speed(FALSE))>>

\* the typing branch: the early return after the pause timeout, else line 82
scheduleAfterTyping(finished) ==
  IF finished THEN <<pauseTimeout>> ELSE <<typeTimeout(speed(FALSE))>>

type(s) ==
  LET currentText == s.texts[s.textIndex + 1]
      shown == substring(currentText, 0, s.charIndex)
  IN IF ~s.isDeleting
     THEN LET c == s.charIndex + 1
          IN [s EXCEPT !.html = shown, !.charIndex = c] @@
             [renders |-> << [mode |-> "Typing", cursor |-> s.charIndex] >>,
              advanced |-> FALSE,
              timeouts |-> scheduleAfterTyping(finishedTyping(c, currentText))]
     ELSE LET c == s.charIndex - 1
              done == finishedDeleting(c)
              del == IF done THEN FALSE ELSE s.isDeleting
          IN [s EXCEPT !.html = shown, !.charIndex = c, !.isDeleting = del,
                       !.textIndex = IF done THEN nextTextIndex(@, Len(s.texts))
                                     ELSE @] @@
             [renders |-> << [mode |-> "Deleting", cursor |-> s.charIndex] >>,
              advanced |-> done,
              timeouts |-> << typeTimeout(speed(del)) >>]

\* variant of pauseCallback that sets the flag and forgets to call type()
pauseCallbackNoType(s) ==
  [s EXCEPT !.isDeleting = TRUE] @@
  [renders |-> <<>>, advanced |-> FALSE, timeouts |-> <<>>]

\* the callback of the 2000 ms timeout
pauseCallback(s) == type([s EXCEPT !.isDeleting = TRUE])

start(s) == type(s)

Remove(q, i) == SubSeq(q, 1, i - 1) \o SubSeq(q, i + 1, Len(q))

\* the effect of one callback run r on the state, `rest' the other timers
Apply(r, rest) ==
  /\ textIndex' = r.textIndex
  /\ charIndex' = r.charIndex
  /\ isDeleting' = r.isDeleting
  /\ innerHTML' = r.html
  /\ timers' = rest \o r.timeouts
  /\ trace' = IF Len(trace) < MaxTrace THEN trace \o r.renders ELSE trace
  /\ cycles' = IF r.advanced THEN (cycles + 1) % (MaxRounds * Len(texts))
               ELSE cycles
  /\ UNCHANGED texts

Start ==
  /\ pc = "constructed"
  /\ pc' = "running"
  /\ Apply(start(this), timers)
  /\ UNCHANGED <<revealVars, otherVars>>

TypeTimer ==
  /\ \E i \in 1..Len(timers) :
       /\ timers[i].callback = "type"
       /\ Apply(type(this), Remove(timers, i))
  /\ UNCHANGED <<pc, revealVars, otherVars>>

PauseExpire ==
  /\ \E i \in 1..Len(timers) :
       /\ timers[i].callback = "pause"
       /\ Apply(pauseCallback(this), Remove(timers, i))
  /\ UNCHANGED <<pc, revealVars, otherVars>>

(***************************************************************************)
(* The display tree the observers' callbacks write to.                     *)
(***************************************************************************)
dom == [classList |-> classList, skillWidth |-> skillWidth,
        styleWrites |-> styleWrites, html |-> innerHTML]

\* variant of classListAdd: classList.toggle(name)
classListToggle(d, e, name) ==
  [d EXCEPT !.classList[e] = IF name \in @ THEN @ \ {name} ELSE @ \cup {name}]

\* element.classList.add(name)
classListAdd(d, e, name) ==
  [d EXCEPT !.classList[e] = @ \cup {name}]

\* progress.style.setProperty('--skill-width', value)
setProperty(d, e, value) ==
  [d EXCEPT !.skillWidth[e] = value,
            !.styleWrites[e] = IF @ < MaxWrites THEN @ + 1 ELSE @]

\* entry.target.querySelector('.skill-progress'): every skill card has one
hasSkillProgress(e) == e \in SkillCards

\* progress.getAttribute('data-width')
dataWidth(e) == renderSkills[e].dataWidth

\* variant of scrollAnimatorEntry that also re-renders the revealed block,
\* which contains #typing-text
scrollAnimatorEntryRerender(d, entry) ==
  IF entry.isIntersecting
  THEN [classListAdd(d, entry.target, "visible") EXCEPT
          !.html = IF entry.target = HeroContent THEN <<>> ELSE @]
  ELSE d

\* the body of ScrollAnimator's forEach, for one entry
scrollAnimatorEntry(d, entry) ==
  IF entry.isIntersecting THEN classListAdd(d, entry.target, "visible") ELSE d

\* variant of skillBarsEntry without the isIntersecting test
skillBarsEntryUnguarded(d, entry) ==
  LET d1 == classListAdd(d, entry.target, "visible")
  IN IF hasSkillProgress(entry.target)
     THEN setProperty(d1, entry.target, dataWidth(entry.target))
     ELSE d1

\* the body of SkillBarsAnimator's forEach, for one entry
skillBarsEntry(d, entry) ==
  IF entry.isIntersecting
  THEN LET d1 == classListAdd(d, entry.target, "visible")
       IN IF hasSkillProgress(entry.target)
          THEN setProperty(d1, entry.target, dataWidth(entry.target))
          ELSE d1
  ELSE d

Observers == {"ScrollAnimator", "SkillBarsAnimator"}

threshold(o) == IF o = "ScrollAnimator" THEN scrollThreshold ELSE skillThreshold

\* variant of observed: the callback unobserves a target once it is revealed
observedUntilRevealed(o) ==
  { e \in querySelectorAll(IF o = "ScrollAnimator" THEN "fade-in" ELSE "skill-card") :
      "visible" \notin classList[e] }

\* scrollAnimator.observe(fadeElements) and skillBarsAnimator.observe()
observed(o) ==
  IF o = "ScrollAnimator" THEN querySelectorAll("fade-in")
  ELSE querySelectorAll("skill-card")

callbackEntry(o, d, entry) ==
  IF o = "ScrollAnimator" THEN scrollAnimatorEntry(d, entry)
  ELSE skillBarsEntry(d, entry)

RECURSIVE forEach(_, _, _)
forEach(o, entries, d) ==
  IF entries = <<>> THEN d
  ELSE forEach(o, Tail(entries), callbackEntry(o, d, Head(entries)))

(***************************************************************************)
(* IntersectionObserver with one threshold: a target intersects when its   *)
(* visible fraction is at least the threshold; an entry is queued for a    *)
(* target when its threshold index differs from the one last reported      *)
(* (-1 before the first report, so the first batch names every target).    *)
(***************************************************************************)
isIntersecting(o, f) == f >= threshold(o)

thresholdIndex(o, f) == IF isIntersecting(o, f) THEN 1 ELSE 0

changed(o) == { e \in observed(o) : thresholdIndex(o, frac[e]) # prevIndex[o][e] }

Orders(S) ==
  { q \in [1..Cardinality(S) -> S] : \A i, j \in DOMAIN q : q[i] = q[j] => i = j }

entriesOf(o, q) ==
  [i \in DOMAIN q |-> [target |-> q[i], isIntersecting |-> isIntersecting(o, frac[q[i]])]]

\* the environment changes the visible fraction of one element
Scroll ==
  /\ \E e \in Elements, f \in Fractions :
       /\ f # frac[e]
       /\ frac' = [frac EXCEPT ![e] = f]
       /\ peak' = [peak EXCEPT ![e] = IF f > @ THEN f ELSE @]
  /\ UNCHANGED <<typingVars, classList, skillWidth, prevIndex, styleWrites,
                 revealedBy, otherVars>>

\* observer o delivers one batch, in any order, and its callback runs
Notify(o) ==
  /\ changed(o) # {}
  /\ \E q \in Orders(changed(o)) :
       LET d == forEach(o, entriesOf(o, q), dom)
       IN /\ classList' = d.classList
          /\ skillWidth' = d.skillWidth
          /\ styleWrites' = d.styleWrites
          /\ innerHTML' = d.html
  /\ prevIndex' = [prevIndex EXCEPT ![o] =
                     [e \in observed(o) |-> thresholdIndex(o, frac[e])]]
  /\ revealedBy' = [e \in Elements |->
                      IF /\ revealedBy[e] = "none"
                         /\ e \in changed(o)
                         /\ isIntersecting(o, frac[e])
                      THEN o ELSE revealedBy[e]]
  /\ UNCHANGED <<texts, textIndex, charIndex, isDeleting, timers, pc, trace,
                 cycles, frac, peak, otherVars>>

NotifyScrollAnimator == Notify("ScrollAnimator")

NotifySkillBars == Notify("SkillBarsAnimator")

(***************************************************************************)
(* ContactForm.  A value is a sequence of characters.  The form-state      *)
(* record F holds what the handlers read and write: the values, the error  *)
(* marks and texts, the status banner, the button and the pending          *)
(* timeouts.                                                               *)
(***************************************************************************)
SendMs == 1500
HideMs == 5000

\* the inputs and the textarea of renderContact, in document order
Fields == <<"name", "email", "subject", "message">>
FieldSet == { Fields[i] : i \in DOMAIN Fields }

hasRequired(f) == f \in {"name", "email", "message"}

fieldType(f) == IF f = "email" THEN "email" ELSE "text"

ValidEmail == <<"a", "@", "a", ".", "a">>
NoDotEmail == <<"a", "@", "a">>
Blank == <<" ">>

\* the values the user may type into a field
Values(f) ==
  CASE f = "name" -> { <<>>, <<"a">> }
    [] f = "email" -> { <<>>, NoDotEmail, ValidEmail }
    [] f = "subject" -> { <<>> }
    [] f = "message" -> { Blank, <<"a">> }

isSpace(ch) == ch = " "

\* String.prototype.trim
RECURSIVE trimStart(_)
trimStart(v) ==
  IF v # <<>> /\ isSpace(Head(v)) THEN trimStart(Tail(v)) ELSE v

RECURSIVE trimEnd(_)
trimEnd(v) ==
  IF v # <<>> /\ isSpace(v[Len(v)]) THEN trimEnd(SubSeq(v, 1, Len(v) - 1)) ELSE v

trim(v) == trimEnd(trimStart(v))

\* [^\s@]+ matches all of part
plainPart(part) ==
  /\ part # <<>>
  /\ \A i \in DOMAIN part : ~isSpace(part[i]) /\ part[i] # "@"

\* a test that asks for no top-level domain: /^[^\s@]+@[^\s@]+$/.test(v)
emailRegexTestNoDot(v) ==
  \E i \in DOMAIN v :
    /\ v[i] = "@"
    /\ plainPart(SubSeq(v, 1, i - 1))
    /\ plainPart(SubSeq(v, i + 1, Len(v)))

\* /^[^\s@]+@[^\s@]+\.[^\s@]+$/.test(v)
emailRegexTest(v) ==
  \E i, j \in DOMAIN v :
    /\ i < j
    /\ v[i] = "@"
    /\ v[j] = "."
    /\ plainPart(SubSeq(v, 1, i - 1))
    /\ plainPart(SubSeq(v, i + 1, j - 1))
    /\ plainPart(SubSeq(v, j + 1, Len(v)))

RequiredMsg == "This field is required"
EmailMsg == "Please enter a valid email address"
FixMsg == "Please fix the errors before submitting"
SuccessMsg == "Message sent successfully"
FailedMsg == "Failed to send message"
SendLabel == "Send Message"
SendingHtml == "<span class=loading></span> Sending..."

\* Node.textContent of the button for the markup it can hold
textContent(html) == IF html = SendingHtml THEN " Sending..." ELSE html

F == [value |-> fieldValue, error |-> groupError, errorText |-> errorText,
      status |-> status, btn |-> submitBtn, pending |-> pending]

\* the error message validateField computes, "" when the field is valid
errorMessage(f, v) ==
  LET req == IF hasRequired(f) /\ trim(v) = <<>> THEN RequiredMsg ELSE ""
  IN IF fieldType(f) = "email" /\ trim(v) # <<>> /\ ~emailRegexTest(v)
     THEN EmailMsg ELSE req

fieldIsValid(f, v) == errorMessage(f, v) = ""

validateField(st, f) ==
  IF fieldIsValid(f, st.value[f])
  THEN [st EXCEPT !.error[f] = FALSE]
  ELSE [st EXCEPT !.error[f] = TRUE, !.errorText[f] = errorMessage(f, st.value[f])]

RECURSIVE validateEach(_, _)
validateEach(st, fs) ==
  IF fs = <<>> THEN st ELSE validateEach(validateField(st, Head(fs)), Tail(fs))

\* validateForm: the form-state after validating every input, and the verdict
validateForm(st) ==
  [st |-> validateEach(st, Fields),
   isValid |-> \A f \in FieldSet : fieldIsValid(f, st.value[f])]

hideTimeout == [kind |-> "hide", delay |-> HideMs, originalText |-> ""]

sendTimeout(label) ==
  [kind |-> "send", delay |-> SendMs, originalText |-> label]

showStatus(st, cls, message) ==
  [st EXCEPT !.status = [class |-> cls, text |-> message, display |-> "block"],
             !.pending = Append(@, hideTimeout)]

\* the callback of showStatus' timeout
hideStatus(st) == [st EXCEPT !.status.display = "none"]

\* a promise that the timeout rejects
simulateSubmissionRejects == "reject"

\* the promise of simulateSubmission: it registers a timeout that resolves it
simulateSubmission == "resolve"

\* handleSubmit up to the await
handleSubmit(st) ==
  LET v == validateForm(st)
  IN IF ~v.isValid
     THEN showStatus(v.st, "error", FixMsg)
     ELSE [v.st EXCEPT !.btn = [disabled |-> TRUE, html |-> SendingHtml],
                       !.pending = Append(@, sendTimeout(textContent(st.btn.html)))]

\* form.reset(): every control back to its default value
formReset(st) == [st EXCEPT !.value = [f \in FieldSet |-> <<>>]]

\* handleSubmit after the await: try or catch, then finally
handleSettled(st, outcome, originalText) ==
  LET body == IF outcome = "resolve"
              THEN formReset(showStatus(st, "success", SuccessMsg))
              ELSE showStatus(st, "error", FailedMsg)
  IN [body EXCEPT !.btn = [disabled |-> FALSE, html |-> originalText]]

SetForm(st) ==
  /\ fieldValue' = st.value
  /\ groupError' = st.error
  /\ errorText' = st.errorText
  /\ status' = st.status
  /\ submitBtn' = st.btn
  /\ pending' = st.pending

\* the runtime fires timeouts of equal delay in order of registration, and a
\* timeout registered earlier with a shorter delay first
mayFire(i) ==
  \A j \in 1..(i - 1) : pending[j].delay > pending[i].delay

\* the user types into a field: the 'input' listener
Input ==
  /\ \E f \in FieldSet : \E v \in Values(f) :
       /\ v # fieldValue[f]
       /\ LET st == [F EXCEPT !.value[f] = v]
          IN SetForm(IF st.error[f] THEN validateField(st, f) ELSE st)
  /\ UNCHANGED <<typingVars, revealVars, pageVars>>

\* a field loses the focus: the 'blur' listener
Blur ==
  /\ \E f \in FieldSet : SetForm(validateField(F, f))
  /\ UNCHANGED <<typingVars, revealVars, pageVars>>

\* a submit event is dispatched to the form
Submit ==
  /\ Len(pending) < MaxPending
  /\ SetForm(handleSubmit(F))
  /\ UNCHANGED <<typingVars, revealVars, pageVars>>

\* the timeout of simulateSubmission fires and handleSubmit resumes
SendSettles ==
  /\ \E i \in DOMAIN pending :
       /\ pending[i].kind = "send"
       /\ mayFire(i)
       /\ SetForm(handleSettled([F EXCEPT !.pending = Remove(pending, i)],
                                simulateSubmission, pending[i].originalText))
  /\ UNCHANGED <<typingVars, revealVars, pageVars>>

\* an auto-hide timeout fires
HideTimer ==
  /\ \E i \in DOMAIN pending :
       /\ pending[i].kind = "hide"
       /\ mayFire(i)
       /\ SetForm(hideStatus([F EXCEPT !.pending = Remove(pending, i)]))
  /\ UNCHANGED <<typingVars, revealVars, pageVars>>

FormInit ==
  /\ fieldValue = [f \in FieldSet |-> <<>>]
  /\ groupError = [f \in FieldSet |-> FALSE]
  /\ errorText = [f \in FieldSet |-> ""]
  /\ status = [class |-> "", text |-> "", display |-> ""]
  /\ submitBtn = [disabled |-> FALSE, html |-> SendLabel]
  /\ pending = <<>>

(***************************************************************************)
(* The state after initApp has rendered the page and built the components, *)
(* before typing.start().                                                  *)
(***************************************************************************)
(***************************************************************************)
(* The view: renderSkills and renderProjects map every entry of their list *)
(* to one card, in list order (Array.prototype.map, then join).            *)
(***************************************************************************)
skillEntries ==
  << [name |-> "HTML", proficiency |-> 95, icon |-> "fab fa-html5"],
     [name |-> "CSS", proficiency |-> 90, icon |-> "fab fa-css3-alt"],
     [name |-> "JavaScript", proficiency |-> 92, icon |-> "fab fa-js"],
     [name |-> "Java", proficiency |-> 85, icon |-> "fab fa-java"],
     [name |-> "Flutter (Dart)", proficiency |-> 88, icon |-> "fas fa-mobile-alt"],
     [name |-> "Firebase", proficiency |-> 87, icon |-> "fas fa-fire"] >>

GitHubUrl == "https://github.com/NigelBerewere"

\* the four featured projects; the long texts are cut to their first words
featuredProjects ==
  << [title |-> "School Portal",
      description |-> "A comprehensive student management",
      problem |-> "Schools need efficient digital solutions",
      solution |-> "Built a full-stack portal",
      impact |-> "Streamlined operations",
      techStack |-> <<"HTML", "CSS", "JavaScript", "Firebase">>,
      github |-> GitHubUrl, demo |-> "#", icon |-> "fas fa-school"],
     [title |-> "Interns & Companies Connector",
      description |-> "Platform connecting students",
      problem |-> "Significant gap between students",
      solution |-> "Created a matching platform",
      impact |-> "Successfully connected 100+ students",
      techStack |-> <<"Flutter", "Firebase", "JavaScript">>,
      github |-> GitHubUrl, demo |-> "#", icon |-> "fas fa-handshake"],
     [title |-> "Numbers",
      description |-> "Personal finance management application",
      problem |-> "Users struggle to track daily expenses",
      solution |-> "Developed mobile app",
      impact |-> "Helped users save",
      techStack |-> <<"Flutter (Dart)", "Firebase">>,
      github |-> GitHubUrl, demo |-> "#", icon |-> "fas fa-chart-line"],
     [title |-> "Project & Staff Manager",
      description |-> "Company tool for project management",
      problem |-> "Companies need centralized systems",
      solution |-> "Built collaborative platform",
      impact |-> "Increased team productivity",
      techStack |-> <<"Java", "JavaScript", "Firebase">>,
      github |-> GitHubUrl, demo |-> "#", icon |-> "fas fa-tasks"] >>

portfolioData == [skills |-> skillEntries, featuredProjects |-> featuredProjects]

\* the lists of at most MaxCards entries, repetitions included
ListsOf(entries) ==
  UNION { [1..n -> { entries[i] : i \in DOMAIN entries }] : n \in 0..MaxCards }

DataSets ==
  { [skills |-> sk, featuredProjects |-> fp] :
      sk \in ListsOf(skillEntries), fp \in ListsOf(featuredProjects) }
    \cup {portfolioData}

\* the template literal of one tech tag
techTag(tech) == [class |-> "tech-tag", text |-> tech]

\* the template literal of one featured-project card
projectCard(project) ==
  [classes |-> {"project-card", "fade-in"},
   icon |-> project.icon,
   title |-> project.title,
   description |-> project.description,
   problem |-> project.problem,
   solution |-> project.solution,
   impact |-> project.impact,
   techTags |-> [j \in 1..Len(project.techStack) |-> techTag(project.techStack[j])],
   githubHref |-> project.github,
   demoHref |-> project.demo]

renderSkillCards(d) == [i \in 1..Len(d.skills) |-> skillCard(d.skills[i])]

renderProjects(d) ==
  [i \in 1..Len(d.featuredProjects) |-> projectCard(d.featuredProjects[i])]

Unrendered == <<>>

\* app.innerHTML = `...`: the cards of the view, per section
renderView(d) ==
  [skillCards |-> renderSkillCards(d), projectCards |-> renderProjects(d)]

\* initApp renders the view, once
RenderOnce ==
  /\ view = Unrendered
  /\ view' = renderView(data)
  /\ UNCHANGED <<data, typingVars, revealVars, formVars, navVars, themeVars,
                 particleVars>>

RenderInit ==
  /\ data \in DataSets
  /\ view = Unrendered

\* the view as the other components find it: the skill list cut as above
RenderIdle ==
  /\ data = [skills |-> skills, featuredProjects |-> <<>>]
  /\ view = renderView(data)

(***************************************************************************)
(* Navigation.  The sections of the rendered page in document order, laid  *)
(* out one below the other; the section of renderOtherProjects has no id.  *)
(***************************************************************************)
NavOffset == 100
SectionHeight == 150
ScrollGrain == 25

\* what a template literal makes of getAttribute's null
NoId == "null"

sections ==
  << [id |-> "home"], [id |-> "about"], [id |-> "skills"], [id |-> "projects"],
     [id |-> NoId], [id |-> "resume"], [id |-> "contact"] >>

navLinks == <<"#home", "#about", "#skills", "#projects", "#resume", "#contact">>

offsetTop(i) == (i - 1) * SectionHeight
offsetHeight(i) == SectionHeight

ScrollYs == { k * ScrollGrain : k \in 0..MaxScroll }

\* `#${id}`
hashOf(id) == "#" \o id

\* scrollPos >= top && scrollPos < top + height
contains(i, scrollPos) ==
  scrollPos >= offsetTop(i) /\ scrollPos < offsetTop(i) + offsetHeight(i)

\* navLinks.forEach: remove 'active' from every link, add it to the match
relight(id) == { navLinks[l] : l \in { k \in DOMAIN navLinks : navLinks[k] = hashOf(id) } }

RECURSIVE forEachSection(_, _, _)
forEachSection(i, act, scrollPos) ==
  IF i > Len(sections) THEN act
  ELSE forEachSection(i + 1,
                      IF contains(i, scrollPos) THEN relight(sections[i].id) ELSE act,
                      scrollPos)

highlightActiveSection(act, y) == forEachSection(1, act, y + NavOffset)

\* the window is scrolled and the 'scroll' listener runs
ScrollEvent ==
  /\ \E y \in ScrollYs :
       /\ y # scrollY
       /\ scrollY' = y
       /\ activeLinks' = highlightActiveSection(activeLinks, y)
  /\ UNCHANGED <<menuOpen, typingVars, revealVars, formVars, renderVars,
                 themeVars, particleVars>>

\* a click on the mobile menu toggle
MenuToggle ==
  /\ menuOpen' = ~menuOpen
  /\ UNCHANGED <<scrollY, activeLinks, typingVars, revealVars, formVars, renderVars,
                 themeVars, particleVars>>

\* a click on a nav link: scrollIntoView starts a smooth scroll, whose scroll
\* events follow, and the mobile menu is closed
LinkClick ==
  /\ \E l \in DOMAIN navLinks : \E i \in DOMAIN sections :
       navLinks[l] = hashOf(sections[i].id)
  /\ menuOpen' = FALSE
  /\ UNCHANGED <<scrollY, activeLinks, typingVars, revealVars, formVars, renderVars,
                 themeVars, particleVars>>

NavInit ==
  /\ scrollY = 0
  /\ activeLinks = {}
  /\ menuOpen = FALSE

(***************************************************************************)
(* ThemeManager.                                                           *)
(***************************************************************************)
Undefined == "undefined"

TM == [theme |-> theme, dataTheme |-> dataTheme, windowTheme |-> windowTheme]

\* window.currentTheme || 'dark'
getStoredTheme(w) == IF w = Undefined THEN "dark" ELSE w

applyTheme(tm, t) == [tm EXCEPT !.dataTheme = t, !.theme = t, !.windowTheme = t]

\* a toggle that returns the theme it replaced
toggleReturnsOld(tm) ==
  LET newTheme == IF tm.theme = "dark" THEN "light" ELSE "dark"
  IN [tm |-> applyTheme(tm, newTheme), ret |-> tm.theme]

toggle(tm) ==
  LET newTheme == IF tm.theme = "dark" THEN "light" ELSE "dark"
  IN [tm |-> applyTheme(tm, newTheme), ret |-> newTheme]

\* updateThemeIcon
updateThemeIcon(t) == IF t = "dark" THEN "fas fa-sun" ELSE "fas fa-moon"

\* new ThemeManager(), at the load of the script
ThemeInit ==
  LET w == Undefined
      tm == applyTheme([theme |-> Undefined, dataTheme |-> Undefined,
                        windowTheme |-> w], getStoredTheme(w))
  IN /\ theme = tm.theme
     /\ dataTheme = tm.dataTheme
     /\ windowTheme = tm.windowTheme
     /\ icon = "fas fa-moon"
     /\ returned = "none"
     /\ themeLog = <<>>

lastTwo(q) == IF Len(q) > 2 THEN Tail(q) ELSE q

\* a click on the theme toggle
ThemeClick ==
  /\ wired
  /\ LET r == toggle(TM)
     IN /\ theme' = r.tm.theme
        /\ dataTheme' = r.tm.dataTheme
        /\ windowTheme' = r.tm.windowTheme
        /\ returned' = r.ret
        /\ icon' = updateThemeIcon(r.tm.theme)
  /\ themeLog' = lastTwo(Append(themeLog, theme))
  /\ UNCHANGED <<typingVars, revealVars, formVars, renderVars, navVars,
                 particleVars>>

(***************************************************************************)
(* The particle background.  The library is optional; each of its calls    *)
(* may throw.  particlesJS(tag, cfg) adds an instance to window.pJSDom.    *)
(***************************************************************************)
particlePresets ==
  << [key |-> "network", line |-> 803], [key |-> "bubbles", line |-> 826],
     [key |-> "stars", line |-> 843], [key |-> "nebula", line |-> 857],
     [key |-> "comet", line |-> 875], [key |-> "snow", line |-> 888],
     [key |-> "confetti", line |-> 901], [key |-> "matrix", line |-> 914],
     [key |-> "aurora", line |-> 927], [key |-> "cloud", line |-> 940],
     [key |-> "sparkles", line |-> 953], [key |-> "galaxy", line |-> 966] >>

presets ==
  <<"network", "bubbles", "stars", "nebula", "comet", "snow", "confetti",
    "matrix", "aurora", "cloud", "sparkles", "galaxy">>

LabelMs == 1400
Outcomes == {"ok", "throw"}

\* particlePresets[presetName] || particlePresets.network
cfgOf(presetName) ==
  LET hits == { i \in DOMAIN particlePresets : particlePresets[i].key = presetName }
  IN IF hits = {} THEN particlePresets[1]
     ELSE particlePresets[CHOOSE i \in hits : TRUE]

P == [lib |-> particlesJS, pJSDom |-> pJSDom, thrown |-> FALSE,
      calledAbsent |-> calledAbsent]

\* destroyParticles: the error of a destroypJS call is ignored, and then
\* window.pJSDom is not emptied
destroyParticles(p, out) ==
  IF p.pJSDom = <<>> THEN p
  ELSE IF out = "throw" THEN p
  ELSE [p EXCEPT !.pJSDom = <<>>]

\* the call particlesJS('particles-js', cfg)
callParticlesJS(p, cfg, out) ==
  IF p.lib = "absent" THEN [p EXCEPT !.thrown = TRUE, !.calledAbsent = TRUE]
  ELSE IF out = "throw" THEN [p EXCEPT !.thrown = TRUE]
  ELSE [p EXCEPT !.pJSDom = Append(@, cfg)]

\* initParticlesWithPreset without its try/catch
initParticlesWithPresetNoCatch(p, presetName, dOut, cOut) ==
  IF p.lib = "absent" THEN p
  ELSE callParticlesJS(destroyParticles(p, dOut), cfgOf(presetName), cOut)

initParticlesWithPreset(p, presetName, dOut, cOut) ==
  LET body == IF p.lib = "absent" THEN p
              ELSE callParticlesJS(destroyParticles(p, dOut), cfgOf(presetName), cOut)
  IN [body EXCEPT !.thrown = FALSE]

SetParticles(p) ==
  /\ pJSDom' = p.pJSDom
  /\ calledAbsent' = p.calledAbsent
  /\ raised' = (raised \/ p.thrown)

\* the outcomes of the library's calls that keep window.pJSDom in bounds
Fits(dOut) == dOut = "ok" \/ Len(pJSDom) < MaxInstances

\* initApp from the particle background to its end, after typing.start()
Wire ==
  /\ pc = "running"
  /\ ~wired
  /\ ~raised
  /\ \E dOut \in Outcomes : \E cOut \in Outcomes :
       /\ Fits(dOut)
       /\ LET p == IF particlesJS # "absent"
                   THEN initParticlesWithPreset(P, "network", dOut, cOut)
                   ELSE P
          IN /\ SetParticles(p)
             /\ wired' = ~p.thrown
             /\ icon' = IF p.thrown THEN icon ELSE updateThemeIcon(theme)
  /\ UNCHANGED <<particlesJS, current, toggleText, labelTimers, theme, dataTheme,
                 windowTheme, returned, themeLog>>
  /\ UNCHANGED <<typingVars, revealVars, formVars, renderVars, navVars>>

\* a click on the style toggle
StyleClick ==
  /\ wired
  /\ labelTimers < MaxPending
  /\ \E dOut \in Outcomes : \E cOut \in Outcomes :
       /\ Fits(dOut)
       /\ LET next == (current + 1) % Len(presets)
              p == initParticlesWithPreset(P, presets[next + 1], dOut, cOut)
          IN /\ current' = next
             /\ SetParticles(p)
             /\ toggleText' = IF p.thrown THEN toggleText ELSE presets[next + 1]
             /\ labelTimers' = IF p.thrown THEN labelTimers ELSE labelTimers + 1
  /\ UNCHANGED <<particlesJS, wired, themeVars>>
  /\ UNCHANGED <<typingVars, revealVars, formVars, renderVars, navVars>>

\* the timeout that resets the label of the style toggle
LabelTimer ==
  /\ labelTimers > 0
  /\ labelTimers' = labelTimers - 1
  /\ toggleText' = "Style"
  /\ UNCHANGED <<particlesJS, current, pJSDom, wired, raised, calledAbsent,
                 themeVars>>
  /\ UNCHANGED <<typingVars, revealVars, formVars, renderVars, navVars>>

ParticlesInit ==
  /\ particlesJS \in {"absent", "loaded"}
  /\ current = 0
  /\ pJSDom = <<>>
  /\ toggleText = "Style"
  /\ labelTimers = 0
  /\ wired = FALSE
  /\ raised = FALSE
  /\ calledAbsent = FALSE

\* the toggles at rest, for the specifications of the other components
WiredIdle ==
  /\ ThemeInit
  /\ ParticlesInit
  /\ particlesJS = "absent"

PageIdle == RenderIdle /\ NavInit /\ WiredIdle

AnimInit ==
  /\ texts \in PhraseSeqs
  /\ textIndex = 0
  /\ charIndex = 0
  /\ isDeleting = FALSE
  /\ innerHTML = <<>>
  /\ timers = <<>>
  /\ pc = "constructed"
  /\ classList = [e \in Elements |-> renderedClasses(e)]
  /\ skillWidth = [e \in SkillCards |-> Unset]
  /\ frac \in [Elements -> Fractions]
  /\ peak = frac
  /\ prevIndex = [o \in Observers |-> [e \in observed(o) |-> -1]]
  /\ trace = <<>>
  /\ cycles = 0
  /\ styleWrites = [e \in SkillCards |-> 0]
  /\ revealedBy = [e \in Elements |-> "none"]

\* the animations at rest, for the specifications of the other components
AnimIdle ==
  /\ AnimInit
  /\ texts = <<AB>>
  /\ frac = [e \in Elements |-> 0]

Init == AnimInit /\ FormInit /\ PageIdle

TypingNext == Start \/ TypeTimer \/ PauseExpire

FormNext == Input \/ Blur \/ Submit \/ SendSettles \/ HideTimer

\* the contact form alone
IdleInit == AnimIdle /\ FormInit /\ PageIdle

FormSpec == IdleInit /\ [][FormNext]_vars

\* the contact form with a runtime that fires every pending timeout
FormLive ==
  IdleInit /\ [][FormNext]_vars /\ WF_vars(SendSettles) /\ WF_vars(HideTimer)

\* the rendering of the view alone
UnrenderedInit == AnimIdle /\ FormInit /\ RenderInit /\ NavInit /\ WiredIdle

RenderSpec == UnrenderedInit /\ [][RenderOnce]_vars

WiringNext == Start \/ Wire \/ ThemeClick \/ StyleClick \/ LabelTimer

\* initApp from typing.start() to its end, and the two toggles
WiringInit ==
  AnimIdle /\ FormInit /\ RenderIdle /\ NavInit /\ ThemeInit /\ ParticlesInit

WiringSpec == WiringInit /\ [][WiringNext]_vars

NavNext == ScrollEvent \/ MenuToggle \/ LinkClick

\* the navigation alone
NavSpec == IdleInit /\ [][NavNext]_vars

RevealNext == Scroll \/ NotifyScrollAnimator \/ NotifySkillBars

RevealInit == AnimInit /\ texts = <<AB>> /\ FormInit /\ PageIdle

\* the two reveal components alone
RevealSpec == RevealInit /\ [][RevealNext]_vars

Next == Start \/ TypeTimer \/ PauseExpire \/ Scroll \/ NotifyScrollAnimator
          \/ NotifySkillBars

Spec == Init /\ [][Next]_vars

\* The typing machine alone, with a runtime that fires every pending
\* timeout.  The observers' callbacks leave the typing state unchanged
\* (C10), so they are left out of the fair specification.
TypingLive == Init /\ [][TypingNext]_vars /\ WF_vars(TypingNext)

TypeOK ==
  /\ texts \in PhraseSeqs
  /\ isDeleting \in BOOLEAN
  /\ pc \in {"constructed", "running"}
  /\ Len(trace) <= MaxTrace

(***************************************************************************)
(* Derived state.                                                          *)
(***************************************************************************)
currentPhrase == texts[textIndex + 1]
PausePending == \E i \in 1..Len(timers) : timers[i].callback = "pause"
Render(m, c) == [mode |-> m, cursor |-> c]

\* tr is a prefix of cyc repeated forever
IsRepetitionPrefix(tr, cyc) ==
  \A i \in 1..Len(tr) : tr[i] = cyc[((i - 1) % Len(cyc)) + 1]

(***************************************************************************)
(* C1 as stated: in every reachable state the cursor position charIndex    *)
(* lies in [0, length of the current phrase texts[textIndex]].             *)
(***************************************************************************)
C1_CursorWithinPhrase ==
  charIndex \in 0..Len(currentPhrase)

(***************************************************************************)
(* C1, amended: charIndex lies in [0, length of the current phrase + 1],   *)
(* and it exceeds the length only while the 2000 ms pause is pending.      *)
(***************************************************************************)
C1_CursorWithinOvershoot ==
  /\ charIndex \in 0..(Len(currentPhrase) + 1)
  /\ charIndex = Len(currentPhrase) + 1 => PausePending

C1_Witness ==
  /\ pc = "running"
  /\ currentPhrase = AB
  /\ charIndex = Len(currentPhrase) + 1

(***************************************************************************)
(* C2 as stated: with the phrases ["ab"] the renders are Typing@0,         *)
(* Typing@1, Typing@2, Deleting@1, Deleting@0, repeated forever.           *)
(***************************************************************************)
ClaimedCycleAB ==
  << Render("Typing", 0), Render("Typing", 1), Render("Typing", 2),
     Render("Deleting", 1), Render("Deleting", 0) >>

C2_ClaimedRenderSequence ==
  texts = <<AB>> => IsRepetitionPrefix(trace, ClaimedCycleAB)

(***************************************************************************)
(* C2, amended: with the phrases ["ab"] the renders are Typing@0,          *)
(* Typing@1, Typing@2 (then the pause), Deleting@3, Deleting@2,            *)
(* Deleting@1, repeated forever from Typing@0; the pause is pending        *)
(* exactly after Typing@2.                                                 *)
(***************************************************************************)
ActualCycleAB ==
  << Render("Typing", 0), Render("Typing", 1), Render("Typing", 2),
     Render("Deleting", 3), Render("Deleting", 2), Render("Deleting", 1) >>

C2_RenderSequence ==
  texts = <<AB>> =>
    /\ IsRepetitionPrefix(trace, ActualCycleAB)
    /\ PausePending <=> (charIndex = 3 /\ ~isDeleting)
    /\ Len(trace) < MaxTrace /\ PausePending =>
         trace[Len(trace)] = Render("Typing", 2)

C2_Witness ==
  /\ texts = <<AB>>
  /\ Len(trace) >= 2 * Len(ActualCycleAB) + 1

(***************************************************************************)
(* C3: the phrase index stays in [0, N) and equals the number of completed *)
(* type/delete cycles modulo N (so it is 0 again after N cycles); it       *)
(* changes only in a deleting step that brings the cursor to 0, and every  *)
(* such step sets it to (i + 1) mod N and the mode to Typing.              *)
(***************************************************************************)
C3_IndexInv ==
  /\ textIndex \in 0..(Len(texts) - 1)
  /\ textIndex = cycles % Len(texts)

C3_IndexStep ==
  /\ textIndex' # textIndex => charIndex = 1 /\ charIndex' = 0
  /\ charIndex = 1 /\ charIndex' = 0 =>
       /\ textIndex' = (textIndex + 1) % Len(texts)
       /\ ~isDeleting'
       /\ cycles' = (cycles + 1) % (MaxRounds * Len(texts))
  /\ cycles' # cycles => charIndex = 1 /\ charIndex' = 0

C3_PhraseIndexAdvance == [](C3_IndexInv) /\ [][C3_IndexStep]_vars

C3_Witness ==
  /\ Len(texts) = 2
  /\ cycles = Len(texts)
  /\ textIndex = 0

(***************************************************************************)
(* C4: once start() has run, exactly one typing timer is pending in every  *)
(* state (none before), and every typing step replaces the pending timer   *)
(* by exactly one new one.                                                 *)
(***************************************************************************)
C4_OnePendingTimer ==
  Len(timers) = IF pc = "running" THEN 1 ELSE 0

C4_Witness ==
  /\ pc = "running"
  /\ cycles >= 1
  /\ PausePending
  /\ Len(timers) = 1

(***************************************************************************)
(* C5: while the phrase is fully typed and the pause runs, the mode is     *)
(* Typing, the display shows the whole phrase and the only pending timer   *)
(* is the 2000 ms pause; the mode becomes Deleting only when that timer    *)
(* expires.                                                                *)
(***************************************************************************)
C5_PauseInv ==
  /\ PausePending =>
       /\ ~isDeleting
       /\ innerHTML = currentPhrase
       /\ timers = << [callback |-> "pause", delay |-> 2000] >>
  /\ ~isDeleting /\ charIndex > Len(currentPhrase) => PausePending

C5_ModeStep ==
  /\ ~isDeleting /\ isDeleting' => PausePending /\ ~PausePending'
  /\ PausePending /\ PausePending' => innerHTML' = innerHTML /\ ~isDeleting'
  /\ PausePending /\ ~PausePending' => innerHTML' = innerHTML

C5_PauseHoldsPhrase == [](C5_PauseInv) /\ [][C5_ModeStep]_vars

C5_Witness ==
  /\ isDeleting
  /\ innerHTML = AB
  /\ charIndex = Len(AB)

(***************************************************************************)
(* C6: under fair firing of the timers, for every phrase i of the          *)
(* sequence, again and again a Typing step at cursor 0 has just run on     *)
(* phrase i and again and again phrase i is fully typed; the cursor never   *)
(* leaves [0, length of the current phrase + 1].                           *)
(***************************************************************************)
TypedAtZero(i) ==
  /\ textIndex = i
  /\ charIndex = 1
  /\ ~isDeleting
  /\ innerHTML = <<>>

FullyTyped(i) ==
  /\ textIndex = i
  /\ PausePending
  /\ innerHTML = texts[i + 1]

C6_NeverWedges ==
  /\ \A i \in 0..(MaxPhrases - 1) :
       /\ []<>(i < Len(texts) => TypedAtZero(i))
       /\ []<>(i < Len(texts) => FullyTyped(i))
  /\ [](charIndex \in 0..(Len(currentPhrase) + 1))

C6_Witness ==
  /\ texts = << <<>> >>
  /\ cycles = 1
  /\ TypedAtZero(0)

(***************************************************************************)
(* RevealOnScroll.                                                         *)
(***************************************************************************)
Visible(e) == "visible" \in classList[e]

(***************************************************************************)
(* C7: once an element carries the class 'visible', no step (a callback    *)
(* batch of either observer in any order, a scroll, a typing step)         *)
(* removes it.                                                             *)
(***************************************************************************)
C7_RevealedIsLatch ==
  [][\A e \in Elements : Visible(e) => "visible" \in classList'[e]]_vars

C7_Witness ==
  \E e \in SkillCards :
    /\ Visible(e)
    /\ Visible(HeroContent)
    /\ frac[e] = 0
    /\ prevIndex["ScrollAnimator"][e] = 0
    /\ prevIndex["SkillBarsAnimator"][e] = 0
    /\ styleWrites[e] >= 1
    /\ isDeleting

(***************************************************************************)
(* C8 as stated: the proficiency value of a skill card is written to       *)
(* --skill-width exactly once; later callbacks perform no further write.   *)
(***************************************************************************)
C8_WrittenOnce ==
  \A e \in SkillCards : styleWrites[e] <= 1

(***************************************************************************)
(* C8, amended: --skill-width is unset until the first SkillBarsAnimator   *)
(* callback that reports the card intersecting (fraction >= 0.5), which    *)
(* writes data-width to it; every later such callback writes the same      *)
(* value again, so once written the output always equals data-width.       *)
(***************************************************************************)
C8_WidthInv ==
  \A e \in SkillCards :
    /\ skillWidth[e] \in {Unset, Percent(skills[e].proficiency)}
    /\ skillWidth[e] = Unset <=> styleWrites[e] = 0
    /\ styleWrites[e] >= 1 => peak[e] >= skillThreshold /\ Visible(e)
    /\ prevIndex["SkillBarsAnimator"][e] = 1 => skillWidth[e] # Unset

C8_WidthStep ==
  \A e \in SkillCards :
    /\ skillWidth[e] # Unset => skillWidth'[e] = skillWidth[e]
    /\ styleWrites'[e] # styleWrites[e] =>
         /\ frac[e] >= skillThreshold
         /\ prevIndex["SkillBarsAnimator"][e] # 1
         /\ prevIndex'["SkillBarsAnimator"][e] = 1

C8_WidthWrittenOnReveal == [](C8_WidthInv) /\ [][C8_WidthStep]_vars

C8_Witness ==
  \E e \in SkillCards :
    /\ styleWrites[e] = 2
    /\ skillWidth[e] = Percent(95)

(***************************************************************************)
(* C9: a skill card is marked revealed only once its visible fraction has  *)
(* reached 0.5, together with the write of its width: no skill card        *)
(* carries 'visible' while its fraction never reached 0.5 or its width is  *)
(* unset.                                                                  *)
(***************************************************************************)
C9_SkillRevealAtHalf ==
  \A e \in SkillCards :
    Visible(e) => peak[e] >= skillThreshold /\ skillWidth[e] # Unset

(***************************************************************************)
(* C10: every step changes either the typing state (fields, display,       *)
(* timers) or the reveal state (classes, widths, observers), never both,   *)
(* and the typing machine is enabled whatever the reveal state is.         *)
(***************************************************************************)
C10_Disjoint ==
  \/ UNCHANGED typingVars
  \/ UNCHANGED revealVars

C10_Independent ==
  /\ [][C10_Disjoint]_vars
  /\ [](pc = "running" => ENABLED (TypeTimer \/ PauseExpire))

C10_Witness ==
  /\ isDeleting
  /\ cycles >= 1
  /\ Visible(HeroContent)
  /\ \E e \in SkillCards : skillWidth[e] # Unset /\ frac[e] = 0

(***************************************************************************)
(* C11 as stated: once an observer has revealed a target it no longer      *)
(* watches it: it delivers no further callback for that target.            *)
(***************************************************************************)
C11_ReleasedOnceRevealed ==
  [][\A o \in Observers : \A e \in DOMAIN prevIndex[o] :
       revealedBy[e] = o => prevIndex'[o][e] = prevIndex[o][e]]_vars

(***************************************************************************)
(* C11, amended: no target is ever removed from observation: each observer *)
(* keeps watching every element it was given at start-up, revealed or not, *)
(* and delivers a callback for a revealed target whenever its visible      *)
(* fraction has crossed the observer's threshold again.                    *)
(***************************************************************************)
GivenTo(o) ==
  IF o = "ScrollAnimator" THEN querySelectorAll("fade-in")
  ELSE querySelectorAll("skill-card")

C11_NeverReleased ==
  \A o \in Observers :
    /\ DOMAIN prevIndex[o] = GivenTo(o)
    /\ \A e \in GivenTo(o) :
         /\ revealedBy[e] = o => Visible(e)
         /\ Visible(e) /\ thresholdIndex(o, frac[e]) # prevIndex[o][e] =>
              ENABLED Notify(o)

C11_Witness ==
  \E o \in Observers : \E e \in GivenTo(o) :
    /\ revealedBy[e] = o
    /\ prevIndex[o][e] = 0
    /\ frac[e] = 0

(***************************************************************************)
(* C12: a target whose visible fraction equals its own threshold (0.1 for  *)
(* generic fade-in targets, 0.5 for skill cards) when its observer reports *)
(* it is revealed, and a target whose visible fraction has always been     *)
(* strictly below its own threshold is not revealed.                       *)
(***************************************************************************)
ownThreshold(e) == IF e \in SkillCards THEN skillThreshold ELSE scrollThreshold

ownObserver(e) == IF e \in SkillCards THEN "SkillBarsAnimator" ELSE "ScrollAnimator"

C12_ThresholdBoundary ==
  \A e \in Elements :
    /\ frac[e] = ownThreshold(e) /\ prevIndex[ownObserver(e)][e] = 1 => Visible(e)
    /\ peak[e] < ownThreshold(e) => ~Visible(e)

(***************************************************************************)
(* ContactForm: what the claims speak of.                                  *)
(***************************************************************************)
Sends(q) == { i \in DOMAIN q : q[i].kind = "send" }
Hides(q) == { i \in DOMAIN q : q[i].kind = "hide" }
SendPending == Sends(pending) # {}

\* a submit event has been handled: the only step that adds a timeout
SubmitStep == Len(pending') = Len(pending) + 1

\* a send has settled: the only step that removes a send timeout
SettleStep == Cardinality(Sends(pending')) < Cardinality(Sends(pending))

OnlySpaces(v) == \A i \in DOMAIN v : v[i] = " "

\* local@domain.tld without whitespace
EmailShape(v) ==
  /\ Cardinality({ i \in DOMAIN v : v[i] = "@" }) = 1
  /\ \A i \in DOMAIN v : v[i] # " "
  /\ \E i \in DOMAIN v :
       /\ v[i] = "@"
       /\ i > 1
       /\ \E j \in (i + 2)..(Len(v) - 1) : v[j] = "."

MissingRequired(f) == f \in {"name", "email", "message"} /\ OnlySpaces(fieldValue[f])

MalformedEmail(f) ==
  f = "email" /\ ~OnlySpaces(fieldValue[f]) /\ ~EmailShape(fieldValue[f])

FormRejected == \E f \in FieldSet : MissingRequired(f) \/ MalformedEmail(f)

(***************************************************************************)
(* C13: a submit of a form with a required field empty after trimming or   *)
(* with a malformed email starts no send: every offending field gets the   *)
(* error mark and its message, the error banner is shown, and the button   *)
(* and the values of the fields are left as they were.                     *)
(***************************************************************************)
C13_Step ==
  SubmitStep /\ FormRejected =>
    /\ Cardinality(Sends(pending')) = Cardinality(Sends(pending))
    /\ \A f \in FieldSet :
         /\ MissingRequired(f) =>
              groupError'[f] /\ errorText'[f] = "This field is required"
         /\ MalformedEmail(f) =>
              groupError'[f] /\ errorText'[f] = "Please enter a valid email address"
         /\ ~MissingRequired(f) /\ ~MalformedEmail(f) => ~groupError'[f]
    /\ status'.class = "error"
    /\ status'.text = "Please fix the errors before submitting"
    /\ status'.display = "block"
    /\ submitBtn' = submitBtn
    /\ fieldValue' = fieldValue

C13_RejectedSubmit == [][C13_Step]_vars

C13_Witness ==
  /\ fieldValue["name"] = <<"a">>
  /\ fieldValue["email"] = NoDotEmail
  /\ groupError["email"]
  /\ errorText["email"] = EmailMsg
  /\ ~groupError["name"]
  /\ groupError["message"]
  /\ status.class = "error"
  /\ status.display = "block"
  /\ ~submitBtn.disabled
  /\ ~SendPending
  /\ Len(pending) = 1

(***************************************************************************)
(* C14: a submit of a valid form starts exactly one send of 1500 ms; when  *)
(* a send settles the success banner is shown and the fields are reset;    *)
(* the 'Failed to send message' banner is never shown; and under fair      *)
(* timers a pending send always settles.                                   *)
(***************************************************************************)
C14_Step ==
  /\ SubmitStep /\ ~FormRejected =>
       /\ Cardinality(Sends(pending')) = Cardinality(Sends(pending)) + 1
       /\ pending'[Len(pending')].kind = "send"
       /\ pending'[Len(pending')].delay = 1500
       /\ fieldValue' = fieldValue
  /\ SettleStep =>
       /\ Cardinality(Sends(pending')) = Cardinality(Sends(pending)) - 1
       /\ status'.class = "success"
       /\ status'.text = SuccessMsg
       /\ status'.display = "block"
       /\ \A f \in FieldSet : fieldValue'[f] = <<>>

C14_SendAlwaysSucceeds ==
  /\ [](status.text # FailedMsg /\ (status.class = "error" => status.text = FixMsg))
  /\ [][C14_Step]_vars
  /\ ([]<>(~SendPending) \/ []<><<SendSettles>>_vars)

C14_Witness ==
  /\ status.class = "success"
  /\ status.display = "block"
  /\ \A f \in FieldSet : fieldValue[f] = <<>>
  /\ ~SendPending

(***************************************************************************)
(* C20: a banner is hidden only by its own auto-hide timeout, i.e. after   *)
(* its own 5 seconds.  The timeout of the banner on display is the newest  *)
(* one, and timeouts of equal delay fire in order of registration: so when *)
(* a step hides the banner on display, no auto-hide timeout is pending     *)
(* after it; one that is was registered for a banner shown later than the  *)
(* one whose timeout fired.                                                *)
(***************************************************************************)
C20_Step ==
  status.display = "block" /\ status'.display = "none" =>
    /\ \E i \in Hides(pending) : pending[i].delay = 5000
    /\ Hides(pending') = {}

C20_HiddenByOwnTimer == [][C20_Step]_vars

(***************************************************************************)
(* C17: rendering the view once yields exactly one skill card per entry of *)
(* the skill list and one project card per entry of the featured-project   *)
(* list, in list order, and every field of a card is the field of its own  *)
(* entry.                                                                  *)
(***************************************************************************)
C17_OneCardPerEntry ==
  view # Unrendered =>
    /\ Len(view.skillCards) = Len(data.skills)
    /\ Len(view.projectCards) = Len(data.featuredProjects)
    /\ \A i \in DOMAIN data.skills :
         LET card == view.skillCards[i]
             entry == data.skills[i]
         IN /\ card.name = entry.name
            /\ card.icon = entry.icon
            /\ card.percentage = [num |-> entry.proficiency, unit |-> "%"]
            /\ card.dataWidth = [num |-> entry.proficiency, unit |-> "%"]
    /\ \A i \in DOMAIN data.featuredProjects :
         LET card == view.projectCards[i]
             entry == data.featuredProjects[i]
         IN /\ card.title = entry.title
            /\ card.icon = entry.icon
            /\ card.description = entry.description
            /\ card.problem = entry.problem
            /\ card.solution = entry.solution
            /\ card.impact = entry.impact
            /\ Len(card.techTags) = Len(entry.techStack)
            /\ \A j \in DOMAIN entry.techStack :
                 card.techTags[j].text = entry.techStack[j]
            /\ card.githubHref = entry.github
            /\ card.demoHref = entry.demo

C17_Witness ==
  /\ view # Unrendered
  /\ data = portfolioData
  /\ Len(view.skillCards) = 6
  /\ Len(view.projectCards) = 4
  /\ view.skillCards[2].name = "CSS"
  /\ view.projectCards[3].title = "Numbers"

(***************************************************************************)
(* C16: after every handled scroll event whose position scrollY + 100 lies *)
(* inside a section, exactly one nav entry is highlighted and it is the    *)
(* entry of that section, whichever section of the page it is.             *)
(***************************************************************************)
SectionAt(pos) ==
  { i \in DOMAIN sections : i - 1 = pos \div SectionHeight /\ pos >= 0 }

C16_Step ==
  scrollY' # scrollY =>
    \A i \in SectionAt(scrollY' + 100) :
      /\ Cardinality(activeLinks') = 1
      /\ \A href \in activeLinks' : href = hashOf(sections[i].id)

C16_HighlightMatchesSection == [][C16_Step]_vars

(***************************************************************************)
(* C15: after any sequence of toggles the value toggle() returned, the     *)
(* theme read from themeManager, the data-theme attribute and the          *)
(* window.currentTheme flag are equal and are 'dark' or 'light'; a toggle  *)
(* switches the theme, and two consecutive toggles restore it.             *)
(***************************************************************************)
C15_ThemeConsistent ==
  /\ theme \in {"dark", "light"}
  /\ dataTheme = theme
  /\ windowTheme = theme
  /\ returned # "none" => returned = theme
  /\ Len(themeLog) >= 1 => themeLog[Len(themeLog)] # theme
  /\ Len(themeLog) = 2 => themeLog[1] = theme
  /\ (returned = "none") = (themeLog = <<>>)

C15_Witness ==
  /\ Len(themeLog) = 2
  /\ themeLog = <<"dark", "light">>
  /\ returned = "dark"
  /\ windowTheme = "dark"

(***************************************************************************)
(* C18: no error escapes initApp or a click on the style toggle, whether   *)
(* the particle library is absent or its calls throw; the library is never *)
(* called when absent; initApp reaches its end, so the theme toggle is     *)
(* wired and the typing animation runs; and every name of the toggle cycle *)
(* resolves to the entry of the preset table under that name.              *)
(***************************************************************************)
C18_Step ==
  /\ wired' /\ ~wired => pc' = "running" /\ timers' # <<>>
  /\ pc = "running" /\ ~wired => ENABLED Wire
  /\ current' # current =>
       /\ current' = (current + 1) % 12
       /\ toggleText' = presets[current' + 1]
       /\ pJSDom' # pJSDom /\ pJSDom' # <<>> =>
            pJSDom'[Len(pJSDom')].key = presets[current' + 1]

C18_ParticlesNeverBreakInit ==
  /\ [](~raised /\ ~calledAbsent)
  /\ [](particlesJS = "absent" => pJSDom = <<>>)
  /\ [](wired => ENABLED ThemeClick /\ (ENABLED StyleClick \/ labelTimers = MaxPending))
  /\ [](\A i \in DOMAIN presets :
          /\ cfgOf(presets[i]).key = presets[i]
          /\ \A j \in DOMAIN presets : cfgOf(presets[j]) = cfgOf(presets[i]) => i = j)
  /\ [][C18_Step]_vars

C18_Witness ==
  /\ particlesJS = "loaded"
  /\ wired
  /\ current = 0
  /\ returned # "none"
  /\ Len(pJSDom) = 2
  /\ pJSDom[1].key = "galaxy"
  /\ pJSDom[2].key = "network"

(***************************************************************************)
(* C19 as claimed: the delay a step of the typing animation schedules is   *)
(* fixed by the phase the step ran in: 80 ms after a typing step that does *)
(* not complete the phrase, 50 ms after every deleting step, the one that  *)
(* brings the cursor to 0 included.                                        *)
(***************************************************************************)
TypingStep == charIndex' > charIndex
DeletingStep == charIndex' < charIndex
Scheduled == timers'[Len(timers')]

C19_ClaimedStep ==
  /\ TypingStep /\ Scheduled.callback = "type" => Scheduled.delay = 80
  /\ DeletingStep => Scheduled.callback = "type" /\ Scheduled.delay = 50

C19_DelayByPhaseOfStep == [][C19_ClaimedStep]_vars

(***************************************************************************)
(* C19: the delay is fixed by the phase the animation is in after the      *)
(* step: 80 ms after a typing step that does not complete the phrase, the  *)
(* 2000 ms pause after the one that does, 50 ms after a deleting step that *)
(* leaves the cursor above 0 (the first after the pause included), and     *)
(* 80 ms after the deleting step that brings the cursor to 0.              *)
(***************************************************************************)
C19_Step ==
  /\ TypingStep =>
       /\ Len(timers') = 1
       /\ IF charIndex' > Len(texts[textIndex + 1])
          THEN Scheduled.callback = "pause" /\ Scheduled.delay = 2000
          ELSE Scheduled.callback = "type" /\ Scheduled.delay = 80
  /\ DeletingStep =>
       /\ Len(timers') = 1
       /\ Scheduled.callback = "type"
       /\ Scheduled.delay = IF charIndex' = 0 THEN 80 ELSE 50
       /\ isDeleting' = (charIndex' # 0)

C19_DelayByPhaseAfterStep == [][C19_Step]_vars

C19_Witness ==
  /\ charIndex = 0
  /\ ~isDeleting
  /\ cycles >= 1
  /\ Len(timers) = 1
  /\ timers[1].callback = "type"
  /\ timers[1].delay = 80
  /\ Len(texts[1]) = 2

(***************************************************************************)
(* C21: the submit button is disabled exactly while a send is in flight:   *)
(* it is disabled whenever a send is pending, and when no send is pending  *)
(* it is enabled and shows its original label 'Send Message'; also when a  *)
(* submit event is handled while an earlier send is still in flight.       *)
(***************************************************************************)
C21_DisabledWhileSending ==
  /\ SendPending => submitBtn.disabled
  /\ ~SendPending => ~submitBtn.disabled /\ submitBtn.html = "Send Message"

====
